---------------------------- MODULE Spec2Model ----------------------------
(***************************************************************************)
(* A model of the etl-firms tasks: the tabular (CSV) and markup (KML)      *)
(* parsers, and the control() run of each of the three task files:         *)
(*   "task"  - src/task.ts            (CSV sources + KML sources + dedup)  *)
(*   "multi" - src/unnamed/part_001   (CSV sources, no deduplication)      *)
(*   "wfs"   - src/unnamed/part_000   (one WFS CSV query, no try/catch     *)
(*                                     around the fetch)                   *)
(*                                                                         *)
(* Text taken from a payload is a sequence of one-character strings, so    *)
(* that trimming, prefix parsing, substring tests and concatenation are    *)
(* computed as the JavaScript built-ins compute them.  A JavaScript value  *)
(* is a record [t, v, s]: t is "num" (v holds the number in units of       *)
(* 10^-FracDigits), "nan", "undef" or "str" (s holds the text).            *)
(***************************************************************************)
EXTENDS Integers, Sequences, FiniteSets, TLC

VARIABLES
    variant,      \* which task file runs: "task", "multi" or "wfs"
    pc,           \* position of control() between two awaits
    idx,          \* index of the source whose fetch is in flight (1-based)
    allFires,     \* the variable allFires of control()
    combined,     \* history: allFires as the source loops left it (what dedup reads)
    pos,          \* index of the next record of the feature loop
    features,     \* fc.features
    submitted,    \* the feature collections handed to this.submit
    error,        \* the error control() rejected with, "none" while it has not
    log,          \* history: how many fetches have settled, whether a payload was parsed,
                  \* whether every answer so far was an empty payload
    pin,          \* parser harness: the payload handed to a parser
    pout          \* parser harness: the records the parser returned

vars == <<variant, pc, idx, allFires, combined, pos, features, submitted, error, log, pin, pout>>

---------------------------------------------------------------------------
(* JavaScript values *)

FracDigits == 6
Scale == 10 ^ FracDigits

Num(n) == [t |-> "num", v |-> n, s |-> <<>>]
NaN == [t |-> "nan", v |-> 0, s |-> <<>>]
Undefined == [t |-> "undef", v |-> 0, s |-> <<>>]
Str(x) == [t |-> "str", v |-> 0, s |-> x]

\* isNaN(x) for a value that is a number or undefined
IsNaN(x) == x.t # "num"

\* a < n and a > n for a numeric literal n (in units of 1, as in the source):
\* false whenever a is NaN or undefined
Lt(a, n) == a.t = "num" /\ a.v < n * Scale
Gt(a, n) == a.t = "num" /\ a.v > n * Scale

---------------------------------------------------------------------------
(* Text *)

Whitespace == {" ", "\t", "\n", "\r"}
DigitChars == <<"0", "1", "2", "3", "4", "5", "6", "7", "8", "9">>
IsDigit(c) == \E d \in 1..10 : DigitChars[d] = c
DigitVal(c) == (CHOOSE d \in 1..10 : DigitChars[d] = c) - 1

RECURSIVE TrimLeft(_)
TrimLeft(s) == IF s # <<>> /\ s[1] \in Whitespace THEN TrimLeft(Tail(s)) ELSE s

RECURSIVE TrimRight(_)
TrimRight(s) ==
    IF s # <<>> /\ s[Len(s)] \in Whitespace THEN TrimRight(SubSeq(s, 1, Len(s) - 1)) ELSE s

\* String.prototype.trim
Trim(s) == TrimRight(TrimLeft(s))

\* the longest prefix of s made of digits
RECURSIVE DigitPrefix(_)
DigitPrefix(s) ==
    IF s # <<>> /\ IsDigit(s[1]) THEN <<s[1]>> \o DigitPrefix(Tail(s)) ELSE <<>>

\* the longest prefix of s made of characters of the set cs
RECURSIVE ClassPrefix(_, _)
ClassPrefix(s, cs) ==
    IF s # <<>> /\ s[1] \in cs THEN <<s[1]>> \o ClassPrefix(Tail(s), cs) ELSE <<>>

\* the value of a sequence of digits
RECURSIVE DigitsVal(_)
DigitsVal(ds) ==
    IF ds = <<>> THEN 0 ELSE DigitsVal(SubSeq(ds, 1, Len(ds) - 1)) * 10 + DigitVal(ds[Len(ds)])

\* the fraction digits fs in units of 10^-FracDigits (digits past FracDigits dropped)
RECURSIVE FracVal(_, _)
FracVal(fs, k) ==
    IF k = 0 THEN 0
    ELSE (IF fs = <<>> THEN 0 ELSE DigitVal(fs[1]) * 10 ^ (k - 1))
         + FracVal(IF fs = <<>> THEN <<>> ELSE Tail(fs), k - 1)

\* String.prototype.includes
Includes(s, sub) ==
    \E i \in 1..(Len(s) - Len(sub) + 1) : SubSeq(s, i, i + Len(sub) - 1) = sub

\* String.prototype.endsWith
EndsWith(s, suf) ==
    Len(s) >= Len(suf) /\ SubSeq(s, Len(s) - Len(suf) + 1, Len(s)) = suf

UpperChars == <<"A", "B", "C", "D", "E", "F", "G", "H", "I", "J", "K", "L", "M",
                "N", "O", "P", "Q", "R", "S", "T", "U", "V", "W", "X", "Y", "Z">>
LowerChars == <<"a", "b", "c", "d", "e", "f", "g", "h", "i", "j", "k", "l", "m",
                "n", "o", "p", "q", "r", "s", "t", "u", "v", "w", "x", "y", "z">>

\* String.prototype.toLowerCase
ToLowerCase(s) ==
    [i \in 1..Len(s) |->
        IF \E k \in 1..26 : UpperChars[k] = s[i]
        THEN LowerChars[CHOOSE k \in 1..26 : UpperChars[k] = s[i]]
        ELSE s[i]]

\* String.prototype.replace(c, '') for a one-character pattern: the first c is removed
ReplaceFirst(s, c) ==
    IF \E i \in 1..Len(s) : s[i] = c
    THEN LET i == CHOOSE i \in 1..Len(s) : s[i] = c /\ \A j \in 1..(i - 1) : s[j] # c
         IN SubSeq(s, 1, i - 1) \o SubSeq(s, i + 1, Len(s))
    ELSE s

\* String.prototype.padStart(n, '0')
RECURSIVE PadStart(_, _)
PadStart(s, n) == IF Len(s) >= n THEN s ELSE PadStart(<<"0">> \o s, n)

\* the decimal digits of a natural number
RECURSIVE NatToText(_)
NatToText(n) ==
    IF n < 10 THEN <<DigitChars[n + 1]>> ELSE NatToText(n \div 10) \o <<DigitChars[(n % 10) + 1]>>

---------------------------------------------------------------------------
(* Number parsing.  Exponents, hexadecimal literals and "Infinity" are not   *)
(* modelled: no payload of the model carries one.                            *)

\* a decimal literal read off s: its sign, integer digits ip, the text rest after
\* them and the fraction digits fp
DecimalValue(s, ip, rest, fp) ==
    LET signed == s # <<>> /\ s[1] \in {"-", "+"}
        neg    == s # <<>> /\ s[1] = "-"
        hasDot == rest # <<>> /\ rest[1] = "."
        mag    == DigitsVal(ip) * Scale + FracVal(fp, FracDigits)
        used   == (IF signed THEN 1 ELSE 0) + Len(ip)
                  + (IF hasDot /\ (ip # <<>> \/ fp # <<>>) THEN 1 + Len(fp) ELSE 0)
    IN [ok |-> ip # <<>> \/ fp # <<>>, val |-> IF neg THEN -mag ELSE mag, len |-> used]

\* the fraction digits follow a "." at the head of rest
DecimalFraction(s, ip, rest) ==
    DecimalValue(s, ip, rest,
                 IF rest # <<>> /\ rest[1] = "." THEN DigitPrefix(Tail(rest)) ELSE <<>>)

\* the integer digits are the digit prefix of body, the text after the sign
DecimalBody(s, body) ==
    DecimalFraction(s, DigitPrefix(body), SubSeq(body, Len(DigitPrefix(body)) + 1, Len(body)))

\* the number a decimal literal prefix of s denotes, its length, and whether s has one
DecimalPrefix(s) ==
    DecimalBody(s, IF s # <<>> /\ s[1] \in {"-", "+"} THEN Tail(s) ELSE s)

\* the number of a literal prefix, NaN when there is none
PrefixNumber(p) == IF p.ok THEN Num(p.val) ELSE NaN

\* parseFloat(value): the longest numeric prefix after leading white space, else NaN;
\* parseFloat(undefined) is NaN
ParseFloat(x) ==
    IF x.t # "str" THEN NaN ELSE PrefixNumber(DecimalPrefix(TrimLeft(x.s)))

\* parseInt(text): sign and digits after leading white space, else NaN
ParseInt(s) ==
    LET t      == TrimLeft(s)
        signed == t # <<>> /\ t[1] \in {"-", "+"}
        neg    == t # <<>> /\ t[1] = "-"
        ip     == DigitPrefix(IF signed THEN Tail(t) ELSE t)
    IN IF ip = <<>> THEN NaN
       ELSE Num((IF neg THEN -1 ELSE 1) * DigitsVal(ip) * Scale)

\* Number(t) of a trimmed text: all of t must be a literal; the empty text is 0
WholeNumber(t) ==
    IF t = <<>> THEN Num(0)
    ELSE IF DecimalPrefix(t).len = Len(t) THEN PrefixNumber(DecimalPrefix(t)) ELSE NaN

\* Number(text)
ToNumber(s) == WholeNumber(Trim(s))

Abs(n) == IF n < 0 THEN -n ELSE n

\* Number.prototype.toFixed(5) of a number value; of NaN it is "NaN".  A sixth
\* decimal of exactly 5 is rounded away from zero here; in JavaScript it depends
\* on the binary expansion, and no payload of the model carries one.
ToFixed5(x) ==
    IF x.t = "nan" THEN <<"N", "a", "N">>
    ELSE LET r == (Abs(x.v) + 5 * 10 ^ (FracDigits - 6)) \div (10 ^ (FracDigits - 5))
         IN (IF x.v < 0 THEN <<"-">> ELSE <<>>)
            \o NatToText(r \div 10 ^ 5) \o <<".">> \o PadStart(NatToText(r % 10 ^ 5), 5)

\* the fraction digits of n / 10^k without trailing zeros
RECURSIVE FracText(_, _)
FracText(n, k) ==
    IF n = 0 \/ k = 0 THEN <<>>
    ELSE <<DigitChars[(n \div 10 ^ (k - 1)) + 1]>> \o FracText(n % 10 ^ (k - 1), k - 1)

\* String(x) inside a template literal
ToText(x) ==
    CASE x.t = "str" -> x.s
      [] x.t = "undef" -> <<"u", "n", "d", "e", "f", "i", "n", "e", "d">>
      [] x.t = "nan" -> <<"N", "a", "N">>
      [] OTHER ->
            (IF x.v < 0 THEN <<"-">> ELSE <<>>)
            \o NatToText(Abs(x.v) \div Scale)
            \o (IF Abs(x.v) % Scale = 0 THEN <<>>
                ELSE <<".">> \o FracText(Abs(x.v) % Scale, FracDigits))

---------------------------------------------------------------------------
(* Names: column names, source identifiers, satellite labels *)

K_latitude == <<"l", "a", "t", "i", "t", "u", "d", "e">>
K_longitude == <<"l", "o", "n", "g", "i", "t", "u", "d", "e">>
K_brightness == <<"b", "r", "i", "g", "h", "t", "n", "e", "s", "s">>
K_scan == <<"s", "c", "a", "n">>
K_track == <<"t", "r", "a", "c", "k">>
K_brightness_2 == <<"b", "r", "i", "g", "h", "t", "n", "e", "s", "s", "_", "2">>
K_frp == <<"f", "r", "p">>
K_confidence == <<"c", "o", "n", "f", "i", "d", "e", "n", "c", "e">>
K_acq_date == <<"a", "c", "q", "_", "d", "a", "t", "e">>
K_acq_time == <<"a", "c", "q", "_", "t", "i", "m", "e">>
K_acq_datetime == <<"a", "c", "q", "_", "d", "a", "t", "e", "t", "i", "m", "e">>
K_satellite == <<"s", "a", "t", "e", "l", "l", "i", "t", "e">>

MODIS_NRT == <<"M", "O", "D", "I", "S", "_", "N", "R", "T">>
VIIRS_SNPP_NRT == <<"V", "I", "I", "R", "S", "_", "S", "N", "P", "P", "_", "N", "R", "T">>
VIIRS_NOAA20_NRT == <<"V", "I", "I", "R", "S", "_", "N", "O", "A", "A", "2", "0", "_", "N", "R", "T">>
VIIRS_NOAA21_NRT == <<"V", "I", "I", "R", "S", "_", "N", "O", "A", "A", "2", "1", "_", "N", "R", "T">>
MODIS_C61 == <<"M", "O", "D", "I", "S", "_", "C", "6", ".", "1">>
VIIRS_SNPP == <<"V", "I", "I", "R", "S", "_", "S", "N", "P", "P">>
VIIRS_NOAA20 == <<"V", "I", "I", "R", "S", "_", "N", "O", "A", "A", "2", "0">>
VIIRS_NOAA21 == <<"V", "I", "I", "R", "S", "_", "N", "O", "A", "A", "2", "1">>

L_MODIS == <<"M", "O", "D", "I", "S">>
L_VIIRS_SNPP == <<"V", "I", "I", "R", "S", " ", "S", "-", "N", "P", "P">>
L_VIIRS_NOAA20 == <<"V", "I", "I", "R", "S", " ", "N", "O", "A", "A", "-", "2", "0">>
L_VIIRS_NOAA21 == <<"V", "I", "I", "R", "S", " ", "N", "O", "A", "A", "-", "2", "1">>
L_VIIRS == <<"V", "I", "I", "R", "S">>

\* the one query of the WFS file (TYPENAME=ms:fires_modis_24hrs)
WFS == <<"W", "F", "S">>

\* the source list of control(): sources (CSV) and kmlSources (KML)
sources == <<MODIS_NRT, VIIRS_SNPP_NRT, VIIRS_NOAA20_NRT, VIIRS_NOAA21_NRT>>
kmlSources == <<MODIS_C61, VIIRS_SNPP, VIIRS_NOAA20, VIIRS_NOAA21>>

\* satelliteMap[source] || source, with the table of parseCSV
CsvSatellite(source) ==
    CASE source = MODIS_NRT -> L_MODIS
      [] source = VIIRS_SNPP_NRT -> L_VIIRS_SNPP
      [] source = VIIRS_NOAA20_NRT -> L_VIIRS_NOAA20
      [] source = VIIRS_NOAA21_NRT -> L_VIIRS_NOAA21
      [] OTHER -> source

\* satelliteMap[source] || source, with the table of parseKML
KmlSatellite(source) ==
    CASE source = MODIS_C61 -> L_MODIS
      [] source = VIIRS_SNPP -> L_VIIRS_SNPP
      [] source = VIIRS_NOAA20 -> L_VIIRS_NOAA20
      [] source = VIIRS_NOAA21 -> L_VIIRS_NOAA21
      [] OTHER -> source

---------------------------------------------------------------------------
(* The tabular parser.  A FireData record keeps the fields control() reads:  *)
(* latitude, longitude, acq_date, acq_time, acq_datetime, satellite,         *)
(* confidence and frp (brightness, scan, track, daynight and version are     *)
(* copied to the output and decide nothing).  The field source is history:   *)
(* the source argument of the parser call that built the record.             *)

\* String.prototype.split(c) for a one-character separator
RECURSIVE Split(_, _)
Split(s, c) ==
    IF \E i \in 1..Len(s) : s[i] = c
    THEN LET i == CHOOSE i \in 1..Len(s) : s[i] = c /\ \A j \in 1..(i - 1) : s[j] # c
         IN <<SubSeq(s, 1, i - 1)>> \o Split(SubSeq(s, i + 1, Len(s)), c)
    ELSE <<s>>

\* the columns parseCSV parses as floating point (task.ts and the multi-source file)
FloatColumns == {K_latitude, K_longitude, K_brightness, K_scan, K_track, K_brightness_2, K_frp}

\* the same list in the WFS file, which holds confidence too
WfsFloatColumns == FloatColumns \cup {K_confidence}

\* the letter codes of the confidence column
ConfidenceCode(value) ==
    IF value = <<"h">> THEN 80 ELSE IF value = <<"n">> THEN 60 ELSE IF value = <<"l">> THEN 40 ELSE 0

\* the confidence column: the number when it parses, else the letter code
ConfidenceOf(numValue, value) ==
    IF ~IsNaN(numValue) THEN numValue ELSE Num(ConfidenceCode(value) * Scale)

\* the body of headers.forEach: the value stored under one header (task.ts)
Coerce(header, value) ==
    IF header \in FloatColumns THEN ParseFloat(Str(value))
    ELSE IF header = K_confidence THEN ConfidenceOf(ParseFloat(Str(value)), value)
    ELSE Str(value)

\* the body of headers.forEach in the WFS file
WfsCoerce(header, value) ==
    IF header \in WfsFloatColumns THEN ParseFloat(Str(value)) ELSE Str(value)

\* fire[key] after the forEach: the last column named key wins, a missing one is undefined
Column(headers, cells, key) ==
    IF \E i \in 1..Len(headers) : headers[i] = key
    THEN cells[CHOOSE i \in 1..Len(headers) :
                 headers[i] = key /\ \A j \in (i + 1)..Len(headers) : headers[j] # key]
    ELSE Undefined

\* the record parseCSV builds from the coerced cells of one row (task.ts, and the
\* same code in the multi-source file)
CsvFire(headers, cells, source) ==
    [latitude     |-> Column(headers, cells, K_latitude),
     longitude    |-> Column(headers, cells, K_longitude),
     acq_date     |-> Column(headers, cells, K_acq_date),
     acq_time     |-> Column(headers, cells, K_acq_time),
     acq_datetime |-> Column(headers, cells, K_acq_datetime),
     satellite    |-> Str(CsvSatellite(source)),
     confidence   |-> Column(headers, cells, K_confidence),
     frp          |-> Column(headers, cells, K_frp),
     source       |-> source]

\* one data row of parseCSV
CsvRow(headers, values, source) ==
    CsvFire(headers, [i \in 1..Len(headers) |-> Coerce(headers[i], Trim(values[i]))], source)

\* the record of one row in the WFS file: no satellite is assigned
WfsFire(headers, cells, source) ==
    [latitude     |-> Column(headers, cells, K_latitude),
     longitude    |-> Column(headers, cells, K_longitude),
     acq_date     |-> Column(headers, cells, K_acq_date),
     acq_time     |-> Column(headers, cells, K_acq_time),
     acq_datetime |-> Column(headers, cells, K_acq_datetime),
     satellite    |-> Column(headers, cells, K_satellite),
     confidence   |-> Column(headers, cells, K_confidence),
     frp          |-> Column(headers, cells, K_frp),
     source       |-> source]

\* one data row of parseCSV in the WFS file
WfsRow(headers, values, source) ==
    WfsFire(headers, [i \in 1..Len(headers) |-> WfsCoerce(headers[i], Trim(values[i]))], source)

\* the push without the NaN check
PushAlways(fire) == <<fire>>

\* fires.push(fire) when neither coordinate is NaN
PushValid(fire) ==
    IF ~IsNaN(fire.latitude) /\ ~IsNaN(fire.longitude) THEN <<fire>> ELSE <<>>

\* one pass of the row loop: a row of another length than the header is skipped
CsvLine(headers, values, source, wfs) ==
    IF Len(values) # Len(headers) THEN <<>>
    ELSE PushValid(IF wfs THEN WfsRow(headers, values, source)
                   ELSE CsvRow(headers, values, source))

\* the row loop of parseCSV: rows i..Len(lines), wfs tells which file's row code runs
RECURSIVE CsvRows(_, _, _, _, _)
CsvRows(lines, headers, i, source, wfs) ==
    IF i > Len(lines) THEN <<>>
    ELSE CsvLine(headers, Split(lines[i], ","), source, wfs)
         \o CsvRows(lines, headers, i + 1, source, wfs)

\* the header line and the row loop, once csvText is split into lines
CsvLines(lines, source, wfs) ==
    IF Len(lines) < 2 THEN <<>>
    ELSE CsvRows(lines, Split(lines[1], ","), 2, source, wfs)

\* parseCSV(csvText, source) of task.ts and of the multi-source file
parseCSV(csvText, source) == CsvLines(Split(Trim(csvText), "\n"), source, FALSE)

\* parseCSV(csvText) of the WFS file
parseCSVWfs(csvText) == CsvLines(Split(Trim(csvText), "\n"), WFS, TRUE)

---------------------------------------------------------------------------
(* The markup parser.  The KML document is modelled after DOM parsing: a     *)
(* sequence of placemarks, each with the text of its first name,             *)
(* description and coordinates element (Undefined when it has none).  The    *)
(* description is text, and the regular expressions are computed on it.      *)

W_FireDetectionCentroid == <<"F", "i", "r", "e", " ", "D", "e", "t", "e", "c", "t", "i", "o", "n", " ", "C", "e", "n", "t", "r", "o", "i", "d">>
W_DetectionTime == <<"D", "e", "t", "e", "c", "t", "i", "o", "n", " ", "T", "i", "m", "e">>
TagSensor == <<"<", "b", ">", "S", "e", "n", "s", "o", "r", ":", " ", "<", "/", "b", ">">>
TagConfidence == <<"<", "b", ">", "C", "o", "n", "f", "i", "d", "e", "n", "c", "e">>
TagColonClose == <<":", " ", "<", "/", "b", ">">>
TagFRP == <<"<", "b", ">", "F", "R", "P", ":", " ", "<", "/", "b", ">">>
W_MODIS == <<"M", "O", "D", "I", "S">>
W_VIIRS == <<"V", "I", "I", "R", "S">>
W_SuomiNPP == <<"S", "u", "o", "m", "i", "-", "N", "P", "P">>
W_NOAA20 == <<"N", "O", "A", "A", "-", "2", "0">>
W_NOAA21 == <<"N", "O", "A", "A", "-", "2", "1">>
W_high == <<"h", "i", "g", "h">>
W_nominal == <<"n", "o", "m", "i", "n", "a", "l">>
W_low == <<"l", "o", "w">>
W_1200 == <<"1", "2", "0", "0">>

\* new Date().toISOString().split('T')[0] on the day of the run
NowDate == <<"2", "0", "2", "4", "-", "0", "1", "-", "0", "2">>

\* element?.textContent || ''
TextOr(x) == IF x.t = "str" THEN x.s ELSE <<>>

\* membership in the character class of a capture group: [^<] or [\d.]
InClass(c, class) == IF class = "notlt" THEN c # "<" ELSE IsDigit(c) \/ c = "."

RECURSIVE KindPrefix(_, _)
KindPrefix(s, class) ==
    IF s # <<>> /\ InClass(s[1], class) THEN <<s[1]>> \o KindPrefix(Tail(s), class) ELSE <<>>

\* (class+) after the white space ws that heads rest: the greedy \s* gives its
\* last character back when nothing of the class follows it
CaptureAfter(ws, c, class) ==
    IF c # <<>> THEN [ok |-> TRUE, text |-> c]
    ELSE IF ws # <<>> /\ InClass(ws[Len(ws)], class)
         THEN [ok |-> TRUE, text |-> <<ws[Len(ws)]>>]
         ELSE [ok |-> FALSE, text |-> <<>>]

\* \s*(class+) matched at the start of rest
Capture(rest, class) ==
    CaptureAfter(ClassPrefix(rest, Whitespace),
                 KindPrefix(SubSeq(rest, Len(ClassPrefix(rest, Whitespace)) + 1, Len(rest)), class),
                 class)

NoMatch == [ok |-> FALSE, text |-> <<>>]

\* the start positions of sub in s
Occurrences(s, sub) ==
    {i \in 1..(Len(s) - Len(sub) + 1) : SubSeq(s, i, i + Len(sub) - 1) = sub}

Min(S) == CHOOSE x \in S : \A y \in S : x <= y

\* the capture after the label that starts at position i
LabelAt(description, label, class, i) ==
    Capture(SubSeq(description, i + Len(label), Len(description)), class)

\* the capture at the leftmost of the matching starts
FirstHit(description, label, class, hits) ==
    IF hits = {} THEN NoMatch ELSE LabelAt(description, label, class, Min(hits))

\* description.match(/label\s*(class+)/): the leftmost start that matches
MatchLabel(description, label, class) ==
    FirstHit(description, label, class,
             {i \in Occurrences(description, label) : LabelAt(description, label, class, i).ok})

\* description.match(/<b>Sensor: <\/b>\s*([^<]+)/)
sensorMatch(description) == MatchLabel(description, TagSensor, "notlt")

\* description.match(/<b>FRP: <\/b>\s*([\d.]+)/)
frpMatch(description) == MatchLabel(description, TagFRP, "numdot")

\* [^:]*: <\/b>\s*([^<]+) matched on tail, the text after "<b>Confidence": [^:]*
\* stops at the first colon, which must open ": </b>"
ConfidenceTail(tail, colons) ==
    IF colons = {} \/ SubSeq(tail, Min(colons), Min(colons) + Len(TagColonClose) - 1) # TagColonClose
    THEN NoMatch
    ELSE Capture(SubSeq(tail, Min(colons) + Len(TagColonClose), Len(tail)), "notlt")

\* the match for the label that starts at position i
ConfidenceAt(description, i) ==
    ConfidenceTail(SubSeq(description, i + Len(TagConfidence), Len(description)),
                   {k \in 1..(Len(description) - i - Len(TagConfidence) + 1) :
                        description[i + Len(TagConfidence) + k - 1] = ":"})

\* the match at the leftmost of the matching starts
FirstConfidence(description, hits) ==
    IF hits = {} THEN NoMatch ELSE ConfidenceAt(description, Min(hits))

\* description.match(/<b>Confidence[^:]*: <\/b>\s*([^<]+)/)
confidenceMatch(description) ==
    FirstConfidence(description,
                    {i \in Occurrences(description, TagConfidence) : ConfidenceAt(description, i).ok})

NoTime == [ok |-> FALSE, date |-> <<>>, hh |-> <<>>, mm |-> <<>>]

\* \d at every position a..b of s
AllDigits(s, a, b) == \A k \in a..b : k <= Len(s) /\ IsDigit(s[k])

\* the date at position j of s and, after white space, the time at position t
DateTimeFrom(s, j, t) ==
    IF /\ AllDigits(s, j, j + 3) /\ AllDigits(s, j + 5, j + 6) /\ AllDigits(s, j + 8, j + 9)
       /\ s[j + 4] = "-" /\ s[j + 7] = "-"
       /\ t > j + 10
       /\ AllDigits(s, t, t + 1) /\ AllDigits(s, t + 3, t + 4)
       /\ s[t + 2] = ":"
    THEN [ok |-> TRUE, date |-> SubSeq(s, j, j + 9),
          hh |-> SubSeq(s, t, t + 1), mm |-> SubSeq(s, t + 3, t + 4)]
    ELSE NoTime

\* (\d{4}-\d{2}-\d{2})\s+(\d{2}):(\d{2}) matched at position j of s
DateTimeAt(s, j) ==
    DateTimeFrom(s, j, j + 10 + Len(ClassPrefix(SubSeq(s, j + 10, Len(s)), Whitespace)))

\* .*? runs from the label at i up to j without leaving the line
SameLine(description, i, j) ==
    \A k \in (i + Len(W_DetectionTime))..(j - 1) : description[k] \notin {"\n", "\r"}

\* where a date and time can follow the label at i
TimeEnds(description, i) ==
    {j \in (i + Len(W_DetectionTime))..Len(description) :
        SameLine(description, i, j) /\ DateTimeAt(description, j).ok}

\* the nearest date and time after the leftmost of the matching labels
FirstTime(description, hits) ==
    IF hits = {} THEN NoTime
    ELSE DateTimeAt(description, Min(TimeEnds(description, Min(hits))))

\* description.match(/Detection Time.*?(\d{4}-\d{2}-\d{2})\s+(\d{2}):(\d{2})/)
detectionTimeMatch(description) ==
    FirstTime(description,
              {i \in Occurrences(description, W_DetectionTime) : TimeEnds(description, i) # {}})

\* the confidence a stated text confStr gives
ConfidenceText(confStr) ==
    IF Includes(confStr, <<"%">>) THEN ParseInt(ReplaceFirst(confStr, "%"))
    ELSE IF Includes(ToLowerCase(confStr), W_high) THEN Num(80 * Scale)
    ELSE IF Includes(ToLowerCase(confStr), W_nominal) THEN Num(60 * Scale)
    ELSE IF Includes(ToLowerCase(confStr), W_low) THEN Num(40 * Scale)
    ELSE Num(60 * Scale)

\* let confidence = 60; if (confidenceMatch) { ... }
ConfidenceFrom(m) == IF ~m.ok THEN Num(60 * Scale) ELSE ConfidenceText(Trim(m.text))

\* the confidence of a marker: 60 unless the description states one
KmlConfidence(description) == ConfidenceFrom(confidenceMatch(description))

\* the label a sensor text gives, the source's label when it names no known sensor
SensorLabel(sensor, source) ==
    IF Includes(sensor, W_MODIS) THEN L_MODIS
    ELSE IF Includes(sensor, W_VIIRS)
         THEN IF Includes(sensor, W_SuomiNPP) THEN L_VIIRS_SNPP
              ELSE IF Includes(sensor, W_NOAA20) THEN L_VIIRS_NOAA20
              ELSE IF Includes(sensor, W_NOAA21) THEN L_VIIRS_NOAA21
              ELSE L_VIIRS
         ELSE KmlSatellite(source)

\* let satellite = satelliteMap[source] || source; if (sensorMatch) { ... }
SatelliteFrom(m, source) ==
    IF m.ok THEN SensorLabel(Trim(m.text), source) ELSE KmlSatellite(source)

\* the satellite of a marker: the sensor text overrides the source's label
KmlSatelliteOf(description, source) == SatelliteFrom(sensorMatch(description), source)

\* [lon, lat] destructured from the numbers of the parts
LonLatOf(parts) ==
    [lon |-> ToNumber(parts[1]),
     lat |-> IF Len(parts) >= 2 THEN ToNumber(parts[2]) ELSE Undefined]

\* coordinates.split(',').map(Number), destructured as [lon, lat]
KmlLonLat(coordinates) == LonLatOf(Split(coordinates, ","))

\* lon < 166 || lon > 179 || lat < -47 || lat > -34
OutsideNZ(lon, lat) == Lt(lon, 166) \/ Gt(lon, 179) \/ Lt(lat, -47) \/ Gt(lat, -34)

\* the record built from the matches dt (detection time) and f (FRP)
KmlRecord(dt, f, description, source, lon, lat) ==
    [latitude     |-> lat,
     longitude    |-> lon,
     acq_date     |-> Str(IF dt.ok THEN dt.date ELSE NowDate),
     acq_time     |-> Str(IF dt.ok THEN dt.hh \o dt.mm ELSE W_1200),
     acq_datetime |-> Str(IF dt.ok
                          THEN dt.date \o <<"T">> \o dt.hh \o <<":">> \o dt.mm
                               \o <<":", "0", "0", "Z">>
                          ELSE NowDate),
     satellite    |-> Str(KmlSatelliteOf(description, source)),
     confidence   |-> KmlConfidence(description),
     frp          |-> IF f.ok THEN ParseFloat(Str(f.text)) ELSE Num(0),
     source       |-> source]

\* the record of one placemark that passed the name, coordinate and region checks
KmlFire(description, source, lon, lat) ==
    KmlRecord(detectionTimeMatch(description), frpMatch(description),
              description, source, lon, lat)

\* the region check on the parsed coordinates, then the record
KmlInside(ll, description, source) ==
    IF OutsideNZ(ll.lon, ll.lat) THEN <<>>
    ELSE <<KmlFire(description, source, ll.lon, ll.lat)>>

\* the coordinate check: if (!coordinates) continue
KmlLocated(coordinates, description, source) ==
    IF coordinates = <<>> THEN <<>>
    ELSE KmlInside(KmlLonLat(coordinates), description, source)

\* the pass of the placemark loop without the name check
KmlPlacemarkAnyName(placemark, source) ==
    KmlLocated(Trim(TextOr(placemark.coordinates)), TextOr(placemark.description), source)

\* one pass of the placemark loop: only centroid markers are read
KmlPlacemark(placemark, source) ==
    IF ~Includes(TextOr(placemark.name), W_FireDetectionCentroid) THEN <<>>
    ELSE KmlLocated(Trim(TextOr(placemark.coordinates)), TextOr(placemark.description), source)

\* the placemark loop of parseKML, from placemark i on
RECURSIVE KmlPlacemarks(_, _, _)
KmlPlacemarks(placemarks, i, source) ==
    IF i > Len(placemarks) THEN <<>>
    ELSE KmlPlacemark(placemarks[i], source) \o KmlPlacemarks(placemarks, i + 1, source)

\* parseKML(kmlContent, source); kmlContent is the parsed document's placemarks
parseKML(kmlContent, source) == KmlPlacemarks(kmlContent, 1, source)

---------------------------------------------------------------------------
(* Deduplication and feature construction *)

MIN_CONFIDENCE == 50
MIN_FRP == 20

\* `${fire.latitude.toFixed(5)}_${fire.longitude.toFixed(5)}_${fire.acq_date}_${fire.acq_time}`
FireKey(fire) ==
    ToFixed5(fire.latitude) \o <<"_">> \o ToFixed5(fire.longitude) \o <<"_">>
    \o ToText(fire.acq_date) \o <<"_">> \o ToText(fire.acq_time)

\* fire.latitude.toFixed / fire.longitude.toFixed on undefined raises a TypeError
KeyThrows(fire) == fire.latitude.t = "undef" \/ fire.longitude.t = "undef"

\* the Map loop without the has() test: a later record replaces the value of its key
RECURSIVE UniqueValuesOverwrite(_, _, _)
UniqueValuesOverwrite(fires, keys, kept) ==
    IF fires = <<>> THEN kept
    ELSE LET key == FireKey(Head(fires))
         IN IF key \in keys
            THEN UniqueValuesOverwrite(Tail(fires), keys,
                     [k \in 1..Len(kept) |->
                         IF FireKey(kept[k]) = key THEN Head(fires) ELSE kept[k]])
            ELSE UniqueValuesOverwrite(Tail(fires), keys \cup {key}, Append(kept, Head(fires)))

\* the Map loop: uniqueFires.has(key) || uniqueFires.set(key, fire), then the values
RECURSIVE UniqueValues(_, _, _)
UniqueValues(fires, keys, kept) ==
    IF fires = <<>> THEN kept
    ELSE LET key == FireKey(Head(fires))
         IN IF key \in keys THEN UniqueValues(Tail(fires), keys, kept)
            ELSE UniqueValues(Tail(fires), keys \cup {key}, Append(kept, Head(fires)))

Deduplicate(fires) == UniqueValues(fires, {}, <<>>)

\* fire.confidence < env.MIN_CONFIDENCE || fire.frp < env.MIN_FRP
BelowThreshold(fire) == Lt(fire.confidence, MIN_CONFIDENCE) \/ Lt(fire.frp, MIN_FRP)

\* new Date(text) is a valid date: text is YYYY-MM-DD, "T" or a space, HH:MM:SS and
\* an optional Z, with month, day, hour, minute and second in range.  Any other text
\* of the model is no date at all.
ValidDate(x) ==
    /\ x.t = "str"
    /\ LET s == x.s
           digits(a, b) == \A k \in a..b : IsDigit(s[k])
           num(a, b) == DigitsVal(SubSeq(s, a, b))
       IN /\ Len(s) \in {19, 20}
          /\ Len(s) = 20 => s[20] = "Z"
          /\ digits(1, 4) /\ digits(6, 7) /\ digits(9, 10)
          /\ digits(12, 13) /\ digits(15, 16) /\ digits(18, 19)
          /\ s[5] = "-" /\ s[8] = "-" /\ s[11] \in {"T", " "} /\ s[14] = ":" /\ s[17] = ":"
          /\ num(6, 7) \in 1..12 /\ num(9, 10) \in 1..31
          /\ num(15, 16) \in 0..59 /\ num(18, 19) \in 0..59
          /\ \/ num(12, 13) \in 0..23
             \/ num(12, 13) = 24 /\ num(15, 16) = 0 /\ num(18, 19) = 0

\* `${fire.acq_date}T${hours}:${minutes}:00Z` with the time padded to 4 characters
acqDateTimeUTC(fire) ==
    LET timeStr == PadStart(ToText(fire.acq_time), 4)
        hours   == SubSeq(timeStr, 1, 2)
        minutes == SubSeq(timeStr, 3, 4)
    IN ToText(fire.acq_date) \o <<"T">> \o hours \o <<":">> \o minutes
       \o <<":", "0", "0", "Z">>

\* `${fire.satellite}_${fire.acq_date}_${fire.acq_time}_${fire.latitude}_${fire.longitude}`
fireId(fire) ==
    ToText(fire.satellite) \o <<"_">> \o ToText(fire.acq_date) \o <<"_">>
    \o ToText(fire.acq_time) \o <<"_">> \o ToText(fire.latitude) \o <<"_">>
    \o ToText(fire.longitude)

\* acqTime.toISOString() raises a RangeError (task.ts and the multi-source file)
BuildThrows(fire) == ~ValidDate(Str(acqDateTimeUTC(fire)))

\* new Date(fire.acq_datetime).toISOString() raises a RangeError (WFS file)
WfsBuildThrows(fire) == ~ValidDate(fire.acq_datetime)

\* the feature pushed for a record
Feature(fire, wfs) ==
    [id           |-> fireId(fire),
     satellite    |-> fire.satellite,
     acq_datetime |-> IF wfs THEN fire.acq_datetime ELSE Str(acqDateTimeUTC(fire)),
     fire         |-> fire]

\* one iteration of the feature loop on fc.features
PushFeature(fs, fire, wfs) ==
    IF BelowThreshold(fire) THEN fs
    ELSE IF (IF wfs THEN WfsBuildThrows(fire) ELSE BuildThrows(fire)) THEN fs
    ELSE Append(fs, Feature(fire, wfs))

---------------------------------------------------------------------------
(* Upstream payloads the model draws from *)

\* Array.prototype.join(sep) for a one-character separator
RECURSIVE Join(_, _)
Join(parts, sep) ==
    IF parts = <<>> THEN <<>>
    ELSE IF Len(parts) = 1 THEN parts[1]
    ELSE parts[1] \o <<sep>> \o Join(Tail(parts), sep)

\* a CSV text: a header line and data rows, each a sequence of field texts
CsvText(header, rows) ==
    Join(<<Join(header, ",")>> \o [i \in 1..Len(rows) |-> Join(rows[i], ",")], "\n")

Header == <<K_latitude, K_longitude, K_acq_date, K_acq_time, K_confidence, K_frp>>
WfsHeader == <<K_latitude, K_longitude, K_acq_date, K_acq_time, K_satellite,
               K_confidence, K_frp, K_acq_datetime>>

T_LatA == <<"-", "4", "0", ".", "0", "0", "0", "0", "0", "4">>
T_LatA2 == <<"-", "4", "0", ".", "0">>
T_LatB == <<"-", "4", "1", ".", "5">>
T_LonA == <<"1", "7", "0", ".", "5">>
T_LonB == <<"1", "7", "2", ".", "2", "5">>
T_Date == <<"2", "0", "2", "4", "-", "0", "1", "-", "0", "1">>
T_BadDate == <<"2", "0", "2", "4", "-", "1", "3", "-", "0", "1">>
T_0130 == <<"0", "1", "3", "0">>
T_130 == <<"1", "3", "0">>
T_0245 == <<"0", "2", "4", "5">>
T_85 == <<"8", "5">>
T_50 == <<"5", "0">>
T_45 == <<"4", "5">>
T_25 == <<"2", "5">>
T_20 == <<"2", "0">>
T_Terra == <<"T", "e", "r", "r", "a">>
T_DateTime == <<"2", "0", "2", "4", "-", "0", "1", "-", "0", "1", "T", "0", "1", ":", "3", "0", ":", "0", "0", "Z">>

\* data rows under Header
RowA == <<T_LatA, T_LonA, T_Date, T_0130, T_85, T_25>>
RowA2 == <<T_LatA2, T_LonA, T_Date, T_0130, T_50, T_20>>
RowA3 == <<T_LatA2, T_LonA, T_Date, T_130, T_85, T_25>>
RowLowConf == <<T_LatB, T_LonB, T_Date, T_0245, T_45, T_25>>
RowNoFrp == <<T_LatB, T_LonB, T_Date, T_0130, T_85, <<>>>>
RowBadDate == <<T_LatB, T_LonA, T_BadDate, T_0130, T_85, T_25>>
RowShort == <<T_LatB, T_LonB, T_Date, T_0130, T_85>>

\* the CSV bodies a tabular endpoint answers with in a run
CsvBodies ==
    { <<>>,
      CsvText(Header, <<>>),
      CsvText(Header, <<RowA>>),
      CsvText(Header, <<RowA2>>),
      CsvText(Header, <<RowA3>>),
      CsvText(Header, <<RowNoFrp>>),
      CsvText(Header, <<RowBadDate, RowShort>>),
      CsvText(Header, <<RowLowConf, RowA>>) }

\* data rows under WfsHeader
WfsRowA == <<T_LatA, T_LonA, T_Date, T_0130, <<"A">>, T_85, T_25, T_DateTime>>
WfsRowTerra == <<T_LatB, T_LonB, T_Date, T_0245, T_Terra, T_50, T_20, T_DateTime>>
WfsRowNoConf == <<T_LatA2, T_LonB, T_Date, T_0130, T_Terra, <<"h">>, T_25, T_DateTime>>
WfsRowNoTime == <<T_LatB, T_LonA, T_Date, T_0130, T_Terra, T_85, T_25, <<>>>>
WfsRowLow == <<T_LatB, T_LonB, T_Date, T_0130, T_Terra, T_45, T_25, T_DateTime>>

WfsRows == {WfsRowA, WfsRowTerra, WfsRowNoConf, WfsRowNoTime, WfsRowLow}

W_kml == <<".", "k", "m", "l">>
T_DocKml == <<"d", "o", "c", ".", "k", "m", "l">>
T_Readme == <<"r", "e", "a", "d", "m", "e", ".", "t", "x", "t">>
T_Footprint == <<"F", "i", "r", "e", " ", "D", "e", "t", "e", "c", "t", "i", "o", "n", " ", "F", "o", "o", "t", "p", "r", "i", "n", "t">>
T_Break == <<"<", "b", "r", "/", ">">>
TagTime == <<"<", "b", ">", "D", "e", "t", "e", "c", "t", "i", "o", "n", " ", "T", "i", "m", "e", ":", " ", "<", "/", "b", ">">>
TagConfidenceFull == <<"<", "b", ">", "C", "o", "n", "f", "i", "d", "e", "n", "c", "e", " ", "[", "0", "-", "1", "0", "0", "%", "]", ":", " ", "<", "/", "b", ">">>
T_TimeA == <<"2", "0", "2", "4", "-", "0", "1", "-", "0", "1", " ", "0", "1", ":", "3", "0", " ", "U", "T", "C">>
T_TimeB == <<"2", "0", "2", "4", "-", "0", "1", "-", "0", "1", " ", "0", "2", ":", "4", "5", " ", "U", "T", "C">>
T_SensorNoaa20 == <<"V", "I", "I", "R", "S", " ", "N", "O", "A", "A", "-", "2", "0">>
T_85pc == <<"8", "5", "%">>
T_FrpA == <<"2", "5", ".", "0">>
T_FrpB == <<"3", "0", ".", "5">>
T_CoordA == <<"1", "7", "0", ".", "5", ",", "-", "4", "0", ".", "0", ",", "0">>
T_CoordB == <<"1", "7", "2", ".", "2", "5", ",", "-", "4", "1", ".", "5">>
T_CoordOne == <<"1", "7", "0", ".", "5">>
T_CoordOut == <<"1", "0", ".", "0", ",", "-", "4", "0", ".", "0">>

\* one "<b>Label: </b> value<br/>" piece of a description
Piece(tag, value) == tag \o <<" ">> \o value \o T_Break

DescA == Piece(TagTime, T_TimeA) \o Piece(TagSensor, T_SensorNoaa20)
         \o Piece(TagConfidenceFull, T_85pc) \o Piece(TagFRP, T_FrpA)
DescB == Piece(TagTime, T_TimeB) \o Piece(TagSensor, W_MODIS)
         \o Piece(TagConfidenceFull, W_nominal) \o Piece(TagFRP, T_FrpB)

Placemark(name, description, coordinates) ==
    [name |-> name, description |-> description, coordinates |-> coordinates]

PmCentroidA == Placemark(Str(W_FireDetectionCentroid), Str(DescA), Str(T_CoordA))
PmCentroidB == Placemark(Str(W_FireDetectionCentroid), Str(DescB), Str(T_CoordB))
PmFootprint == Placemark(Str(T_Footprint), Str(DescA), Str(T_CoordA))
PmOneCoord == Placemark(Str(W_FireDetectionCentroid), Str(DescA), Str(T_CoordOne))
PmBare == Placemark(Str(W_FireDetectionCentroid), Undefined, Str(T_CoordB))
PmOutside == Placemark(Str(W_FireDetectionCentroid), Str(DescA), Str(T_CoordOut))
PmNoCoord == Placemark(Str(W_FireDetectionCentroid), Str(DescA), Undefined)

\* a KMZ payload: whether AdmZip can open it, and its entries in order; an entry
\* has a name, and its text is empty or parses to placemarks
Entry(entryName, empty, placemarks) ==
    [entryName |-> entryName, empty |-> empty, placemarks |-> placemarks]
Kmz(opens, entries) == [opens |-> opens, entries |-> entries]

KmzBodies ==
    { Kmz(FALSE, <<>>),
      Kmz(TRUE, <<Entry(T_Readme, FALSE, <<>>)>>),
      Kmz(TRUE, <<Entry(T_DocKml, TRUE, <<>>)>>),
      Kmz(TRUE, <<Entry(T_Readme, FALSE, <<>>), Entry(T_DocKml, FALSE, <<PmFootprint, PmCentroidA>>),
                  Entry(T_DocKml, FALSE, <<PmCentroidB>>)>>),
      Kmz(TRUE, <<Entry(T_DocKml, FALSE, <<PmCentroidB, PmOutside, PmNoCoord>>)>>),
      Kmz(TRUE, <<Entry(T_DocKml, FALSE, <<PmBare>>)>>),
      Kmz(TRUE, <<Entry(T_DocKml, FALSE, <<PmOneCoord>>)>>) }

---------------------------------------------------------------------------
(* control() *)

Variants == {"task", "multi", "wfs"}

\* the most records the upstream responses of one run add up to
MaxFires == 3

NoPayload == [kind |-> "none"]

Init ==
    /\ variant \in Variants
    /\ pc = IF variant = "wfs" THEN "wfsFetch" ELSE "csvFetch"
    /\ idx = 1
    /\ allFires = <<>>
    /\ combined = <<>>
    /\ pos = 1
    /\ features = <<>>
    /\ submitted = <<>>
    /\ error = "none"
    /\ log = [settled |-> 0, parsed |-> FALSE, allEmpty |-> TRUE]
    /\ pin = NoPayload
    /\ pout = <<>>

\* the CSV loop with break in place of continue: a failed source ends the loop
CsvLoopBreak(v, i, failed) ==
    IF i < Len(sources) /\ ~failed THEN [pc |-> "csvFetch", idx |-> i + 1]
    ELSE IF v = "task" THEN [pc |-> "kmlFetch", idx |-> 1]
    ELSE [pc |-> "build", idx |-> i]

\* the CSV loop with a retry: a failed source is fetched again
CsvLoopRetry(v, i, failed) ==
    IF failed THEN [pc |-> "csvFetch", idx |-> i]
    ELSE IF i < Len(sources) THEN [pc |-> "csvFetch", idx |-> i + 1]
    ELSE IF v = "task" THEN [pc |-> "kmlFetch", idx |-> 1]
    ELSE [pc |-> "build", idx |-> i]

\* where control() goes when the CSV loop is done with source i (continue, the
\* catch block and the end of the try block all lead to the next source)
CsvLoopNext(v, i, failed) ==
    IF i < Len(sources) THEN [pc |-> "csvFetch", idx |-> i + 1]
    ELSE IF v = "task" THEN [pc |-> "kmlFetch", idx |-> 1]
    ELSE [pc |-> "build", idx |-> i]

\* the KML loop without its try block: a source that fails ends the run
KmlLoopThrow(i, failed) ==
    IF failed THEN [pc |-> "raised", idx |-> i]
    ELSE IF i < Len(kmlSources) THEN [pc |-> "kmlFetch", idx |-> i + 1]
    ELSE [pc |-> "dedup", idx |-> i]

\* where control() goes when the KML loop is done with source i
KmlLoopNext(i, failed) ==
    IF i < Len(kmlSources) THEN [pc |-> "kmlFetch", idx |-> i + 1]
    ELSE [pc |-> "dedup", idx |-> i]

\* the loop moves on: next is the result of CsvLoopNext or KmlLoopNext, fires the
\* records the source added
MoveOn(next, fires) ==
    /\ pc' = next.pc
    /\ idx' = next.idx
    /\ allFires' = allFires \o fires
    /\ combined' = IF next.pc \in {"dedup", "build"} THEN allFires \o fires ELSE combined
    /\ pos' = 1

\* the first entry whose name ends with .kml, 0 when there is none
FirstKml(entries) ==
    IF \E k \in 1..Len(entries) : EndsWith(entries[k].entryName, W_kml)
    THEN Min({k \in 1..Len(entries) : EndsWith(entries[k].entryName, W_kml)})
    ELSE 0

Settled == [log EXCEPT !.settled = @ + 1]
Parsed == [log EXCEPT !.parsed = TRUE]

\* the history after a body has come in, empty or with content
Received(history, empty) == [history EXCEPT !.allEmpty = @ /\ empty]

\* the history after a fetch or the read of a body has failed
Failed(history) == [history EXCEPT !.allEmpty = FALSE]

\* a CSV text parseCSV returns [] for at its first check: fewer than 2 lines
ShortText(csvText) == Len(Split(Trim(csvText), "\n")) < 2

\* a KMZ payload of no bytes, or one whose document is empty: AdmZip or the
\* DOMParser raises inside the try block
EmptyKmz(kmz) ==
    \/ ~kmz.opens
    \/ FirstKml(kmz.entries) # 0 /\ kmz.entries[FirstKml(kmz.entries)].empty

\* await fetch(firmsUrl) settles for sources[idx]
CsvFetchSettles ==
    /\ variant \in {"task", "multi"}
    /\ pc = "csvFetch"
    /\ \/ /\ pc' = "csvText"
          /\ log' = Settled
          /\ UNCHANGED <<idx, allFires, combined, pos>>
       \/ \E failure \in {"status", "transport"} :
              /\ MoveOn(CsvLoopNext(variant, idx, TRUE), <<>>)
              /\ log' = Failed(Settled)
    /\ UNCHANGED <<variant, features, submitted, error, pin, pout>>

\* parseCSV and parseKML on every payload of the model, computed once
CsvShort == [csvText \in CsvBodies |-> ShortText(csvText)]
CsvParsed == [i \in 1..Len(sources) |-> [csvText \in CsvBodies |-> parseCSV(csvText, sources[i])]]
KmlParsed ==
    [i \in 1..Len(kmlSources) |->
        [kmz \in KmzBodies |->
            [k \in 1..Len(kmz.entries) |-> parseKML(kmz.entries[k].placemarks, kmlSources[i])]]]

\* await firmsRes.text() settles: the body is parsed and appended, or text() rejects
CsvTextSettles ==
    /\ pc = "csvText"
    /\ \/ \E csvText \in CsvBodies :
              /\ Len(allFires) + Len(CsvParsed[idx][csvText]) <= MaxFires
              /\ MoveOn(CsvLoopNext(variant, idx, FALSE), CsvParsed[idx][csvText])
              /\ log' = Received(Parsed, CsvShort[csvText])
       \/ /\ MoveOn(CsvLoopNext(variant, idx, TRUE), <<>>)
          /\ log' = Failed(log)
    /\ UNCHANGED <<variant, features, submitted, error, pin, pout>>

\* await fetch(kmlSource.url) settles for kmlSources[idx]
KmlFetchSettles ==
    /\ pc = "kmlFetch"
    /\ \/ /\ pc' = "kmlBody"
          /\ log' = Settled
          /\ UNCHANGED <<idx, allFires, combined, pos>>
       \/ \E failure \in {"status", "transport"} :
              /\ MoveOn(KmlLoopNext(idx, TRUE), <<>>)
              /\ log' = Failed(Settled)
    /\ UNCHANGED <<variant, features, submitted, error, pin, pout>>

\* await kmlRes.arrayBuffer() settles: the archive is opened and its first .kml
\* entry parsed; a rejected read, an archive AdmZip cannot open and an empty
\* document all raise inside the try block
KmlBodySettles ==
    /\ pc = "kmlBody"
    /\ \/ \E kmz \in KmzBodies :
              LET k     == FirstKml(kmz.entries)
                  threw == ~kmz.opens \/ (k # 0 /\ kmz.entries[k].empty)
                  fires == IF threw \/ k = 0 THEN <<>> ELSE KmlParsed[idx][kmz][k]
              IN /\ Len(allFires) + Len(fires) <= MaxFires
                 /\ MoveOn(KmlLoopNext(idx, threw), fires)
                 /\ log' = Received(IF threw \/ k = 0 THEN log ELSE Parsed, EmptyKmz(kmz))
       \/ /\ MoveOn(KmlLoopNext(idx, TRUE), <<>>)
          /\ log' = Failed(log)
    /\ UNCHANGED <<variant, features, submitted, error, pin, pout>>

\* the deduplication loop and allFires = Array.from(uniqueFires.values())
Dedup ==
    /\ pc = "dedup"
    /\ IF \E k \in 1..Len(allFires) : KeyThrows(allFires[k])
       THEN /\ pc' = "raised"
            /\ error' = "TypeError"
            /\ UNCHANGED allFires
       ELSE /\ pc' = "build"
            /\ error' = error
            /\ allFires' = Deduplicate(allFires)
    /\ UNCHANGED <<variant, idx, combined, pos, features, submitted, log, pin, pout>>

\* the feature loop with the try block around it: a record that raises ends the loop
AfterRecordAbort(fires, p, wfs) ==
    IF ~BelowThreshold(fires[p])
       /\ (IF wfs THEN WfsBuildThrows(fires[p]) ELSE BuildThrows(fires[p]))
    THEN Len(fires) + 1
    ELSE p + 1

\* the index the feature loop takes up after the record at position p
AfterRecord(fires, p, wfs) == p + 1

\* one iteration of for (const fire of allFires)
BuildFeature ==
    /\ pc = "build"
    /\ pos <= Len(allFires)
    /\ features' = PushFeature(features, allFires[pos], variant = "wfs")
    /\ pos' = AfterRecord(allFires, pos, variant = "wfs")
    /\ UNCHANGED <<variant, pc, idx, allFires, combined, submitted, error, log, pin, pout>>

\* await this.submit(fc)
Submit ==
    /\ pc = "build"
    /\ pos > Len(allFires)
    /\ submitted' = Append(submitted, features)
    /\ pc' = "done"
    /\ UNCHANGED <<variant, idx, allFires, combined, pos, features, error, log, pin, pout>>

\* await fetch(firmsUrl) settles in the WFS file: a failure is not caught
WfsFetchSettles ==
    /\ pc = "wfsFetch"
    /\ \/ /\ pc' = "wfsText"
          /\ log' = Settled
          /\ UNCHANGED error
       \/ \E failure \in {"status", "transport"} :
              /\ pc' = "raised"
              /\ error' = failure
              /\ log' = Failed(Settled)
    /\ UNCHANGED <<variant, idx, allFires, combined, pos, features, submitted, pin, pout>>

\* the most rows one body of the WFS endpoint carries
MaxWfsRows == 2

\* the CSV bodies the WFS endpoint answers with
WfsBodies ==
    {<<>>} \cup
    UNION {{CsvText(WfsHeader, rows) : rows \in [1..n -> WfsRows]} : n \in 0..MaxWfsRows}

WfsShort == [csvText \in WfsBodies |-> ShortText(csvText)]
WfsParsed == [csvText \in WfsBodies |-> parseCSVWfs(csvText)]

\* await firmsRes.text() settles in the WFS file
WfsTextSettles ==
    /\ pc = "wfsText"
    /\ \/ \E csvText \in WfsBodies :
              /\ MoveOn([pc |-> "build", idx |-> idx], WfsParsed[csvText])
              /\ log' = Received(Parsed, WfsShort[csvText])
              /\ UNCHANGED error
       \/ /\ pc' = "raised"
          /\ error' = "decode"
          /\ log' = Failed(log)
          /\ UNCHANGED <<idx, allFires, combined, pos>>
    /\ UNCHANGED <<variant, features, submitted, pin, pout>>

Next ==
    \/ CsvFetchSettles
    \/ CsvTextSettles
    \/ KmlFetchSettles
    \/ KmlBodySettles
    \/ Dedup
    \/ BuildFeature
    \/ Submit
    \/ WfsFetchSettles
    \/ WfsTextSettles

Spec == Init /\ [][Next]_vars

---------------------------------------------------------------------------
(* The parsers on their own: a payload is drawn, and the parser is applied *)

T_abc == <<"a", "b", "c">>
T_150 == <<"1", "5", "0">>
T_Minus5 == <<"-", "5">>
T_PaddedH == <<" ", "h", " ">>
T_45abc == <<"4", "5", "a", "b", "c">>
T_19 == <<"1", "9", ".", "9">>
T_150pc == <<"1", "5", "0", "%">>
T_Pc == <<"%">>
T_HighConfidence == <<"H", "i", "g", "h", " ", "c", "o", "n", "f", "i", "d", "e", "n", "c", "e">>
T_CoordText == <<"a", "b", "c", ",", "d", "e", "f">>
T_Blank == <<" ", " ">>
T_Landsat == <<"L", "A", "N", "D", "S", "A", "T", "_", "N", "R", "T">>

CsvLatTexts == {T_LatA, T_abc, <<>>}
CsvTimeTexts == {T_0130, T_130}
CsvConfidenceTexts ==
    {T_85, T_50, T_150, T_Minus5, <<"h">>, <<"n">>, <<"l">>, <<"x">>, <<"H">>, <<>>,
     T_PaddedH, T_45abc}
CsvFrpTexts == {T_25, T_19, <<>>}

\* one-row bodies over the field texts, and bodies without data rows
CsvTexts ==
    {CsvText(Header, <<row>>) :
        row \in {<<lat, T_LonA, T_Date, time, conf, frp>> :
                    lat \in CsvLatTexts, time \in CsvTimeTexts,
                    conf \in CsvConfidenceTexts, frp \in CsvFrpTexts}}
    \cup CsvBodies \cup {Join(Header, ",")}

KmlConfidenceTexts ==
    {T_85pc, T_150pc, T_Pc, W_high, T_HighConfidence, W_nominal, W_low, T_abc, <<" ">>}

\* descriptions: with or without a detection time, with or without a confidence piece
KmlDescriptions ==
    {Undefined, Str(DescA), Str(DescB)}
    \cup {Str(time \o Piece(TagSensor, sensor) \o Piece(TagConfidenceFull, conf)
              \o Piece(TagFRP, T_FrpA)) :
            time \in {<<>>, Piece(TagTime, T_TimeA)},
            sensor \in {W_VIIRS, T_SensorNoaa20, T_abc},
            conf \in KmlConfidenceTexts}

KmlNames == {Str(W_FireDetectionCentroid), Str(T_Footprint), Undefined}
KmlCoordinates ==
    {Str(T_CoordA), Str(T_CoordB), Str(T_CoordOne), Str(T_CoordOut), Str(T_CoordText),
     Str(T_Blank), Undefined}

\* one-placemark documents
KmlDocuments ==
    {<<Placemark(name, description, coordinates)>> :
        name \in KmlNames, description \in KmlDescriptions, coordinates \in KmlCoordinates}
    \cup {<<>>, <<PmFootprint, PmCentroidA, PmCentroidB>>}

\* the most data rows of a multi-row body
MaxRows == 3

RowBadLat == <<T_abc, T_LonA, T_Date, T_0130, T_85, T_25>>
RowLong == <<T_LatB, T_LonA, T_Date, T_0245, T_85, T_25, T_20>>

\* bodies of up to MaxRows rows: kept rows, rows of another width than the header,
\* rows whose latitude does not parse
CsvRowTexts ==
    UNION {{CsvText(Header, rows) :
               rows \in [1..n -> {RowA, RowLowConf, RowShort, RowLong, RowBadLat}]} :
           n \in 1..MaxRows}

Payload(kind, source, text, placemarks) ==
    [kind |-> kind, source |-> source, text |-> text, placemarks |-> placemarks]

ParserPayloads ==
    {Payload("csv", source, text, <<>>) : source \in {MODIS_NRT, T_Landsat}, text \in CsvTexts}
    \cup {Payload("csv", MODIS_NRT, text, <<>>) : text \in CsvRowTexts}
    \cup {Payload("wfs", WFS, text, <<>>) : text \in WfsBodies}
    \cup {Payload("kml", source, <<>>, doc) : source \in {VIIRS_SNPP, T_Landsat}, doc \in KmlDocuments}

ParserInit ==
    /\ pin \in ParserPayloads
    /\ pout = <<>>
    /\ pc = "parse"
    /\ variant = IF pin.kind = "wfs" THEN "wfs" ELSE "task"
    /\ idx = 1
    /\ allFires = <<>>
    /\ combined = <<>>
    /\ pos = 1
    /\ features = <<>>
    /\ submitted = <<>>
    /\ error = "none"
    /\ log = [settled |-> 0, parsed |-> FALSE, allEmpty |-> TRUE]

\* this.parseCSV(csvText, source), task.ts
CallParseCSV ==
    /\ pc = "parse" /\ pin.kind = "csv"
    /\ pout' = parseCSV(pin.text, pin.source)
    /\ pc' = "parsed"
    /\ UNCHANGED <<variant, idx, allFires, combined, pos, features, submitted, error, log, pin>>

\* this.parseCSV(csvText), WFS file
CallParseCSVWfs ==
    /\ pc = "parse" /\ pin.kind = "wfs"
    /\ pout' = parseCSVWfs(pin.text)
    /\ pc' = "parsed"
    /\ UNCHANGED <<variant, idx, allFires, combined, pos, features, submitted, error, log, pin>>

\* this.parseKML(kmlContent, source)
CallParseKML ==
    /\ pc = "parse" /\ pin.kind = "kml"
    /\ pout' = parseKML(pin.placemarks, pin.source)
    /\ pc' = "parsed"
    /\ UNCHANGED <<variant, idx, allFires, combined, pos, features, submitted, error, log, pin>>

ParserNext == CallParseCSV \/ CallParseCSVWfs \/ CallParseKML

ParserSpec == ParserInit /\ [][ParserNext]_vars

---------------------------------------------------------------------------
(* Vocabulary of the properties *)

\* the subsequence of list at the indices of I, in order
Pick(list, I) ==
    [k \in 1..Cardinality(I) |->
        list[CHOOSE i \in I : Cardinality({j \in I : j < i}) = k - 1]]

\* the indices of the records that are the first of their fingerprint
FirstIndices(list) ==
    {i \in 1..Len(list) : \A j \in 1..(i - 1) : FireKey(list[j]) # FireKey(list[i])}

\* a >= n for a number a; false for NaN and undefined
Ge(a, n) == a.t = "num" /\ a.v >= n * Scale

\* the record passes both thresholds
PassesFilter(fire) == Ge(fire.confidence, MIN_CONFIDENCE) /\ Ge(fire.frp, MIN_FRP)

\* building the feature of the record raises in the running task file
Raises(fire) == IF variant = "wfs" THEN WfsBuildThrows(fire) ELSE BuildThrows(fire)

\* the records the features of a collection were built from
FiresOf(fc) == [k \in 1..Len(fc) |-> fc[k].fire]

\* the number of fetches a run of the task file issues
NumFetches ==
    CASE variant = "task" -> Len(sources) + Len(kmlSources)
      [] variant = "multi" -> Len(sources)
      [] OTHER -> 1

CanonicalLabels == {L_MODIS, L_VIIRS_SNPP, L_VIIRS_NOAA20, L_VIIRS_NOAA21, L_VIIRS}

---------------------------------------------------------------------------
(* C1: the list deduplication retains is exactly the subsequence of the      *)
(* combined list made of the first record of each fingerprint, in the order  *)
(* of those first occurrences; later records of a fingerprint are dropped    *)
(* whatever source they came from.                                           *)
DedupKeepsFirstOccurrences ==
    (variant = "task" /\ pc \in {"build", "done"}) =>
        allFires = Pick(combined, FirstIndices(combined))

\* C1 witness: a run of task.ts ended in which a record was dropped in favour
\* of an earlier one from another source whose latitude differs before rounding
DedupDroppedLaterRecord ==
    /\ variant = "task" /\ pc = "done"
    /\ Len(allFires) >= 2
    /\ \E i, j \in 1..Len(combined) :
          /\ i < j
          /\ FireKey(combined[i]) = FireKey(combined[j])
          /\ combined[i].source # combined[j].source
          /\ combined[i].latitude # combined[j].latitude

(* C2: when two different sources each contribute a record of the same fire  *)
(* (same fingerprint) and both records pass the thresholds, the submitted    *)
(* collection holds exactly one feature for that fire.  The records          *)
(* considered have a valid timestamp.                                        *)
SameFireOneFeature ==
    \A n \in 1..Len(submitted) :
        \A i, j \in 1..Len(combined) :
            ( /\ i < j
              /\ combined[i].source # combined[j].source
              /\ ~KeyThrows(combined[i]) /\ ~KeyThrows(combined[j])
              /\ FireKey(combined[i]) = FireKey(combined[j])
              /\ PassesFilter(combined[i]) /\ PassesFilter(combined[j])
              /\ ~Raises(combined[i]) /\ ~Raises(combined[j]) )
            => Cardinality({k \in 1..Len(submitted[n]) :
                               FireKey(submitted[n][k].fire) = FireKey(combined[i])}) = 1

(* C3: a failed fetch (non-success status, transport error, undecodable      *)
(* body) never aborts the run, and every source is still fetched before the  *)
(* run goes on to build its features.                                        *)
FetchFailureIsolated ==
    /\ error \notin {"status", "transport", "decode"}
    /\ pc \in {"dedup", "build", "done"} => log.settled = NumFetches

(* C4: whatever the upstream responses, a run of control() of task.ts does   *)
(* not raise, and when it has ended it has handed exactly one feature        *)
(* collection to the sink.                                                   *)
RunNeverRaises ==
    variant = "task" =>
        /\ pc # "raised" /\ error = "none"
        /\ Len(submitted) <= 1
        /\ pc = "done" => Len(submitted) = 1

(* C5: every feature of a collection submitted by task.ts comes from a       *)
(* record with confidence >= MIN_CONFIDENCE and frp >= MIN_FRP, and every    *)
(* deduplicated record below a threshold has no feature.                     *)
ThresholdFilter ==
    variant = "task" =>
        \A n \in 1..Len(submitted) :
            /\ \A k \in 1..Len(submitted[n]) : PassesFilter(submitted[n][k].fire)
            /\ \A i \in 1..Len(allFires) :
                   BelowThreshold(allFires[i]) =>
                       \A k \in 1..Len(submitted[n]) : submitted[n][k].fire # allFires[i]

(* C6 as stated: no payload is parsed before every fetch of the run has      *)
(* settled.                                                                  *)
ParseAfterAllFetches == log.parsed => log.settled = NumFetches

(* C6, amended: deduplication and filtering start only after every fetch of  *)
(* the run has settled; the payload of a source is parsed once that source's *)
(* own fetch has settled, before the fetches of the later sources.           *)
DedupAfterAllFetches ==
    /\ pc \in {"dedup", "build", "done"} => log.settled = NumFetches
    /\ pc = "csvText" => log.settled = idx
    /\ pc = "kmlBody" => log.settled = Len(sources) + idx
    /\ pc = "wfsText" => log.settled = 1
    /\ log.parsed => log.settled >= 1

\* C6 witness: task.ts reaches deduplication with records parsed along the way
\* and all eight fetches settled
DedupReachedAfterFetches ==
    /\ variant = "task" /\ pc = "dedup"
    /\ log.parsed /\ Len(allFires) >= 2
    /\ log.settled = Len(sources) + Len(kmlSources)

(* C7: a record whose feature construction raises yields no feature, the     *)
(* features built before it are kept, and the later records are still        *)
(* processed: the submitted features are those of exactly the records that   *)
(* pass the filter and do not raise, in order.                               *)
FeatureFailureIsolated ==
    pc = "done" =>
        /\ Len(submitted) = 1
        /\ FiresOf(submitted[1]) =
              Pick(allFires, {i \in 1..Len(allFires) :
                                 ~BelowThreshold(allFires[i]) /\ ~Raises(allFires[i])})

\* C7 witness: a run ended in which a record that raised lies between two records
\* that each got a feature
RaisingRecordBetweenFeatures ==
    /\ pc = "done"
    /\ Len(submitted) = 1 /\ Len(submitted[1]) >= 2
    /\ \E i, j, k \in 1..Len(allFires) :
          /\ i < j /\ j < k
          /\ allFires[i] = submitted[1][1].fire
          /\ ~BelowThreshold(allFires[j]) /\ Raises(allFires[j])
          /\ allFires[k] = submitted[1][2].fire

(* C8: every record the tabular parser and the markup parser return has a   *)
(* confidence that is a number in [0, 100].                                  *)
ConfidenceInRange ==
    (pc = "parsed" /\ pin.kind \in {"csv", "kml"}) =>
        \A k \in 1..Len(pout) :
            /\ pout[k].confidence.t = "num"
            /\ pout[k].confidence.v >= 0
            /\ pout[k].confidence.v <= 100 * Scale

(* C9: every record that reaches the deduplicator has an acquisition time    *)
(* that is a string of exactly four digits.                                  *)
AcqTimeFourDigits ==
    pc = "dedup" =>
        \A k \in 1..Len(allFires) :
            /\ allFires[k].acq_time.t = "str"
            /\ Len(allFires[k].acq_time.s) = 4
            /\ \A c \in 1..4 : IsDigit(allFires[k].acq_time.s[c])

(* C10: the satellite label of every feature a run emits is one of MODIS,    *)
(* VIIRS S-NPP, VIIRS NOAA-20, VIIRS NOAA-21 and VIIRS.                      *)
CanonicalSatellite ==
    \A k \in 1..Len(features) :
        /\ features[k].satellite.t = "str"
        /\ features[k].satellite.s \in CanonicalLabels

(* C11: every record parseKML returns has a longitude in [166, 179] and a    *)
(* latitude in [-47, -34], both numbers; a marker whose coordinate text      *)
(* gives no usable longitude or latitude produces no record.                 *)
KmlInsideRegion ==
    (pc = "parsed" /\ pin.kind = "kml") =>
        \A k \in 1..Len(pout) :
            /\ pout[k].longitude.t = "num"
            /\ pout[k].longitude.v >= 166 * Scale /\ pout[k].longitude.v <= 179 * Scale
            /\ pout[k].latitude.t = "num"
            /\ pout[k].latitude.v >= -47 * Scale /\ pout[k].latitude.v <= -34 * Scale

---------------------------------------------------------------------------
(* The recency bucket of the feature loop on its own.  The age of a          *)
(* detection is now.getTime() - acqTime.getTime(), in milliseconds;          *)
(* hoursSince is that age divided by MsPerHour, so hoursSince < n is         *)
(* elapsed < n * MsPerHour.                                                  *)

\* (1000 * 60 * 60)
MsPerHour == 1000 * 60 * 60

\* the oldest detection drawn, in hours
MaxAgeHours == 30

\* the chain of comparisons with <= in place of <
timeSinceCategoryInclusive(elapsed) ==
    IF elapsed <= 1 * MsPerHour THEN "< 1"
    ELSE IF elapsed <= 3 * MsPerHour THEN "1-3"
    ELSE IF elapsed <= 6 * MsPerHour THEN "3-6"
    ELSE IF elapsed <= 12 * MsPerHour THEN "6-12"
    ELSE "12-24"

\* let timeSinceCategory: if (hoursSince < 1) ... else '12-24'
timeSinceCategory(elapsed) ==
    IF elapsed < 1 * MsPerHour THEN "< 1"
    ELSE IF elapsed < 3 * MsPerHour THEN "1-3"
    ELSE IF elapsed < 6 * MsPerHour THEN "3-6"
    ELSE IF elapsed < 12 * MsPerHour THEN "6-12"
    ELSE "12-24"

\* ages on, just before, just after and half an hour after every full hour
ElapsedTimes ==
    {h * MsPerHour + d : h \in 0..MaxAgeHours, d \in {-1, 0, 1, MsPerHour \div 2}}

BucketInit ==
    /\ pin \in {[kind |-> "elapsed", ms |-> e] : e \in ElapsedTimes}
    /\ pout = <<>>
    /\ pc = "age"
    /\ variant = "task"
    /\ idx = 1
    /\ allFires = <<>>
    /\ combined = <<>>
    /\ pos = 1
    /\ features = <<>>
    /\ submitted = <<>>
    /\ error = "none"
    /\ log = [settled |-> 0, parsed |-> FALSE, allEmpty |-> TRUE]

\* the bucket is computed for one record of the feature loop
ComputeBucket ==
    /\ pc = "age"
    /\ pout' = <<timeSinceCategory(pin.ms)>>
    /\ pc' = "bucketed"
    /\ UNCHANGED <<variant, idx, allFires, combined, pos, features, submitted, error, log, pin>>

BucketNext == ComputeBucket

BucketSpec == BucketInit /\ [][BucketNext]_vars

(* C12: a detection aged h hours gets the bucket "< 1" when 0 <= h < 1,      *)
(* "1-3" when 1 <= h < 3, "3-6" when 3 <= h < 6, "6-12" when 6 <= h < 12 and *)
(* "12-24" for every h >= 12, also beyond 24; it gets exactly one bucket.    *)
BucketMatchesAge ==
    pc = "bucketed" =>
        /\ Len(pout) = 1
        /\ pout[1] \in {"< 1", "1-3", "3-6", "6-12", "12-24"}
        /\ (0 <= pin.ms /\ pin.ms < 1 * MsPerHour) => pout[1] = "< 1"
        /\ (1 * MsPerHour <= pin.ms /\ pin.ms < 3 * MsPerHour) => pout[1] = "1-3"
        /\ (3 * MsPerHour <= pin.ms /\ pin.ms < 6 * MsPerHour) => pout[1] = "3-6"
        /\ (6 * MsPerHour <= pin.ms /\ pin.ms < 12 * MsPerHour) => pout[1] = "6-12"
        /\ pin.ms >= 12 * MsPerHour => pout[1] = "12-24"

\* C12 witness: a detection exactly 3 hours old was put in "3-6"
ThreeHoursBucketed ==
    pc = "bucketed" /\ pin.ms = 3 * MsPerHour /\ pout = <<"3-6">>

---------------------------------------------------------------------------
\* the lines of a tabular payload, as parseCSV splits them
PayloadLines(text) == Split(Trim(text), "\n")

\* the cell of the row under the column named key parses to a number
CellParses(headers, values, key) ==
    \E p \in 1..Len(headers) :
        headers[p] = key /\ ParseFloat(Str(Trim(values[p]))).t = "num"

\* the data lines parseCSV is to retain: as wide as the header, both coordinates numbers
RetainedLines(lines) ==
    {i \in 2..Len(lines) :
        /\ Len(Split(lines[i], ",")) = Len(Split(lines[1], ","))
        /\ CellParses(Split(lines[1], ","), Split(lines[i], ","), K_latitude)
        /\ CellParses(Split(lines[1], ","), Split(lines[i], ","), K_longitude)}

(* C13: for a payload with a header and N data rows, parseCSV returns at     *)
(* most N records, in row order: exactly the rows as wide as the header      *)
(* whose latitude and longitude both parse to numbers; a row that is         *)
(* excluded does not change which later rows are retained.                   *)
RowsRetainedInOrder ==
    (pc = "parsed" /\ pin.kind = "csv" /\ Len(PayloadLines(pin.text)) >= 2) =>
        /\ Len(pout) <= Len(PayloadLines(pin.text)) - 1
        /\ pout = Pick([i \in 1..Len(PayloadLines(pin.text)) |->
                           IF i \in RetainedLines(PayloadLines(pin.text))
                           THEN CsvRow(Split(PayloadLines(pin.text)[1], ","),
                                       Split(PayloadLines(pin.text)[i], ","), pin.source)
                           ELSE <<>>],
                       RetainedLines(PayloadLines(pin.text)))

\* C13 witness: of three data rows the second is narrower than the header or has
\* a latitude that is no number, and the first and the third were returned
MiddleRowExcluded ==
    /\ pc = "parsed" /\ pin.kind = "csv"
    /\ Len(PayloadLines(pin.text)) = 4
    /\ RetainedLines(PayloadLines(pin.text)) = {2, 4}
    /\ Len(pout) = 2
    /\ pout[1] # pout[2]

\* the cell of the row under the column named key, trimmed
CellOf(headers, values, key) ==
    Trim(values[CHOOSE p \in 1..Len(headers) : headers[p] = key])

\* the confidence the mapping gives a cell: its number, or the value of its letter code
MappedConfidence(cell) ==
    IF ParseFloat(Str(cell)).t = "num" THEN ParseFloat(Str(cell))
    ELSE IF cell = <<"h">> THEN Num(80 * Scale)
    ELSE IF cell = <<"n">> THEN Num(60 * Scale)
    ELSE IF cell = <<"l">> THEN Num(40 * Scale)
    ELSE Num(0)

(* C14: the confidence of every tabular record is a number: the number its   *)
(* confidence cell parses to, else 80 for the code h, 60 for n, 40 for l,    *)
(* and 0 for any other text.                                                 *)
TabularConfidenceMapped ==
    (pc = "parsed" /\ pin.kind \in {"csv", "wfs"} /\ Len(PayloadLines(pin.text)) >= 2) =>
        [k \in 1..Len(pout) |-> pout[k].confidence]
            = Pick([i \in 1..Len(PayloadLines(pin.text)) |->
                       IF i \in RetainedLines(PayloadLines(pin.text))
                       THEN MappedConfidence(CellOf(Split(PayloadLines(pin.text)[1], ","),
                                                    Split(PayloadLines(pin.text)[i], ","),
                                                    K_confidence))
                       ELSE NaN],
                   RetainedLines(PayloadLines(pin.text)))

\* the confidence a stated text stands for: its percentage, 80 for high, 60 for
\* nominal, 40 for low, and 60 for a text that is none of these
StatedConfidence(confStr) ==
    IF Includes(confStr, <<"%">>)
    THEN IF ParseInt(ReplaceFirst(confStr, "%")).t = "num"
         THEN ParseInt(ReplaceFirst(confStr, "%"))
         ELSE Num(60 * Scale)
    ELSE IF Includes(ToLowerCase(confStr), W_high) THEN Num(80 * Scale)
    ELSE IF Includes(ToLowerCase(confStr), W_nominal) THEN Num(60 * Scale)
    ELSE IF Includes(ToLowerCase(confStr), W_low) THEN Num(40 * Scale)
    ELSE Num(60 * Scale)

(* C15: the confidence of a record parseKML returns is the stated percentage *)
(* when the confidence text is a percentage, 80 for a text containing high,  *)
(* 60 for nominal, 40 for low, and 60 when the confidence field is absent or *)
(* cannot be parsed, a percent sign without a number included.               *)
MarkupConfidenceParsed ==
    (pc = "parsed" /\ pin.kind = "kml" /\ Len(pin.placemarks) = 1 /\ Len(pout) = 1) =>
        pout[1].confidence =
            IF confidenceMatch(TextOr(pin.placemarks[1].description)).ok
            THEN StatedConfidence(
                     Trim(confidenceMatch(TextOr(pin.placemarks[1].description)).text))
            ELSE Num(60 * Scale)

\* the placemarks of a document whose name indicates a detection centroid
Centroids(placemarks) ==
    {i \in 1..Len(placemarks) :
        Includes(TextOr(placemarks[i].name), W_FireDetectionCentroid)}

(* C16: a marker whose name does not indicate a detection centroid produces  *)
(* no record, whatever its description and coordinates hold, and a centroid  *)
(* marker produces at most one: there are no more records than centroid      *)
(* markers, and each record has the coordinates of a centroid marker.        *)
CentroidMarkersOnly ==
    (pc = "parsed" /\ pin.kind = "kml") =>
        /\ Len(pout) <= Cardinality(Centroids(pin.placemarks))
        /\ \A k \in 1..Len(pout) :
               \E i \in Centroids(pin.placemarks) :
                   /\ pin.placemarks[i].coordinates.t = "str"
                   /\ pout[k].longitude = KmlLonLat(Trim(pin.placemarks[i].coordinates.s)).lon
                   /\ pout[k].latitude = KmlLonLat(Trim(pin.placemarks[i].coordinates.s)).lat

\* C16 witness: a footprint marker with a full description and coordinates inside
\* the region was parsed, and no record came out
FootprintGaveNoRecord ==
    /\ pc = "parsed" /\ pin.kind = "kml"
    /\ pin.placemarks = <<Placemark(Str(T_Footprint), Str(DescA), Str(T_CoordA))>>
    /\ pout = <<>>

\* the fetches that have settled all answered with an empty payload
OnlyEmptyPayloads == log.settled >= 1 /\ log.allEmpty

(* C17: as long as every source has answered with an entirely empty payload  *)
(* (a tabular text of fewer than 2 lines, a markup archive of no content),   *)
(* no record has been collected and the run has not raised; such a run ends  *)
(* by submitting one feature collection with zero features.                  *)
EmptyUpstreamSubmitsNothing ==
    OnlyEmptyPayloads =>
        /\ allFires = <<>>
        /\ features = <<>>
        /\ pc # "raised" /\ error = "none"
        /\ pc = "done" => submitted = << <<>> >>

\* C17 witness: all eight sources of task.ts answered with an empty payload and the
\* run submitted
EmptyRunSubmitted ==
    /\ variant = "task" /\ pc = "done"
    /\ log.allEmpty
    /\ log.settled = Len(sources) + Len(kmlSources)

(* C18: every step that leaves a fetch is one attempt, and the k-th attempt   *)
(* of a run is the fetch of the k-th configured source, the tabular sources   *)
(* first and the markup sources after them: no source is fetched twice, none  *)
(* is skipped, and a failed fetch is followed by the next source.             *)
SingleAttemptInOrder ==
    [][ /\ pc \in {"csvFetch", "kmlFetch", "wfsFetch"} => log'.settled = log.settled + 1
        /\ log'.settled # log.settled =>
               /\ log'.settled = log.settled + 1
               /\ log'.settled <= NumFetches
               /\ \/ pc = "csvFetch" /\ idx = log'.settled
                  \/ pc = "kmlFetch" /\ Len(sources) + idx = log'.settled
                  \/ pc = "wfsFetch" /\ log'.settled = 1
        /\ pc' = "done" => log.settled = NumFetches
      ]_vars

\* C18 witness: a run of task.ts in which a source failed came to its end after
\* eight attempts without a single record
FailedSourcesAttemptedOnce ==
    /\ variant = "task" /\ pc = "done"
    /\ ~log.allEmpty /\ ~log.parsed
    /\ log.settled = Len(sources) + Len(kmlSources)

\* no two features of a collection have the same id
DistinctIds(fc) == \A a, b \in 1..Len(fc) : a # b => fc[a].id # fc[b].id

(* C19: in the feature collection a run submits, no two features have the     *)
(* same id.                                                                    *)
UniqueFeatureIds == \A c \in 1..Len(submitted) : DistinctIds(submitted[c])

\* the same property for the runs of task.ts alone, where the combined list is
\* deduplicated before the features are built
UniqueFeatureIdsAfterDedup == variant = "task" => UniqueFeatureIds

=============================================================================
